---- MODULE Spec2Model ----
(***************************************************************************)
(* Model of src/app.py: the Fountain line classifier, the screenplay       *)
(* parser (parse_fountain_text) and the shotlist builder                   *)
(* (build_shotlist_from_scenes).                                           *)
(*                                                                         *)
(* A Python str is a sequence of one-character strings, so that strip,      *)
(* lower, the regular expressions and the joins are computed character by  *)
(* character.  The empty sequence is the empty str.                        *)
(***************************************************************************)
EXTENDS Integers, Sequences, FiniteSets, TLC

VARIABLES
    text,               \* the document handed to parse_fountain_text
    lines,              \* text.splitlines()
    idx,                \* 1-based position of the for loop in lines
    pc,                 \* "start", "loop", "parsed", "built", "raised"
    scenes,             \* the list of finalized scenes
    current_scene,      \* the open scene, or None
    buffer_action,      \* pending raw action lines
    current_character,  \* the active speaker, <<>> when None
    columns,            \* the caller's schema list, as the caller sees it
    col_map,            \* logical field -> resolved column
    uniq_cols,          \* the output column list
    rows,               \* the rows of the returned frame
    buffer_src,         \* history: the line numbers held in buffer_action
    beat_src,           \* history: per beat of the open scene, its line numbers
    scene_src,          \* history: beat_src of every finalized scene
    doc,                \* the number of the document in the batch, from 1
    probe,              \* a line handed to is_character_cue on its own
    verdict,            \* what is_character_cue said of probe, "none" before
    up_files            \* the texts of the uploaded files, in order

vars == <<text, lines, idx, pc, scenes, current_scene, buffer_action,
          current_character, columns, col_map, uniq_cols, rows,
          buffer_src, beat_src, scene_src, doc, probe, verdict, up_files>>

parser_vars == <<text, lines, idx, scenes, current_scene, buffer_action,
                 current_character, buffer_src, beat_src, scene_src>>

builder_vars == <<columns, col_map, uniq_cols, rows>>

other_vars == <<doc, probe, verdict, up_files>>

----------------------------------------------------------------------------
(* Bounds of the model *)

\* longest document, in lines
MaxLines == 4

----------------------------------------------------------------------------
(* Characters *)

UpperSeq == <<"A","B","C","D","E","F","G","H","I","J","K","L","M","N","O","P","Q","R","S","T","U","V","W","X","Y","Z">>
LowerSeq == <<"a","b","c","d","e","f","g","h","i","j","k","l","m","n","o","p","q","r","s","t","u","v","w","x","y","z">>
DigitSeq == <<"0","1","2","3","4","5","6","7","8","9">>

\* the characters of the model in code point order
CodeOrder == <<"\t","\n","\f","\r"," ","#","'","(",")","-",".","/">> \o DigitSeq \o <<":">> \o UpperSeq
             \o <<"[","]">> \o LowerSeq

Range(s) == {s[i] : i \in 1..Len(s)}

SetMin(S) == CHOOSE x \in S : \A y \in S : x <= y
SetMax(S) == CHOOSE x \in S : \A y \in S : x >= y

UpperSet == Range(UpperSeq)
LowerSet == Range(LowerSeq)
DigitSet == Range(DigitSeq)
SpaceSet == {" ", "\t", "\n", "\r", "\f"}

\* str.isupper, str.isalpha on one character; \d and \s of the regexes
IsUpper(c) == c \in UpperSet
IsLower(c) == c \in LowerSet
IsAlpha(c) == IsUpper(c) \/ IsLower(c)
IsDigit(c) == c \in DigitSet
IsSpace(c) == c \in SpaceSet

LowerOf == [c \in UpperSet |->
              LowerSeq[CHOOSE i \in 1..Len(UpperSeq) : UpperSeq[i] = c]]

ToLower(c) == IF IsUpper(c) THEN LowerOf[c] ELSE c

Lower(s) == [i \in 1..Len(s) |-> ToLower(s[i])]

\* str.lstrip(), str.rstrip(), str.strip()
RECURSIVE LStrip(_)
LStrip(s) == IF s # <<>> /\ IsSpace(s[1]) THEN LStrip(Tail(s)) ELSE s

RECURSIVE RStrip(_)
RStrip(s) ==
    IF s # <<>> /\ IsSpace(s[Len(s)]) THEN RStrip(SubSeq(s, 1, Len(s) - 1)) ELSE s

Strip(s) == RStrip(LStrip(s))

\* str.rstrip("\n")
RECURSIVE RStripNL(_)
RStripNL(s) ==
    IF s # <<>> /\ s[Len(s)] = "\n" THEN RStripNL(SubSeq(s, 1, Len(s) - 1)) ELSE s

Count(s, P(_)) == Cardinality({i \in 1..Len(s) : P(s[i])})

RECURSIVE Join(_, _)
Join(parts, sep) ==
    IF parts = <<>> THEN <<>>
    ELSE IF Len(parts) = 1 THEN parts[1]
    ELSE parts[1] \o sep \o Join(Tail(parts), sep)

\* str.splitlines over the line boundaries \n, \r\n, \r and \f
RECURSIVE SplitFrom(_, _, _)
SplitFrom(s, i, cur) ==
    IF i > Len(s) THEN (IF cur = <<>> THEN <<>> ELSE <<cur>>)
    ELSE IF s[i] = "\r" /\ i < Len(s) /\ s[i + 1] = "\n"
         THEN <<cur>> \o SplitFrom(s, i + 2, <<>>)
    ELSE IF s[i] \in {"\n", "\r", "\f"}
         THEN <<cur>> \o SplitFrom(s, i + 1, <<>>)
    ELSE SplitFrom(s, i + 1, Append(cur, s[i]))

splitlines(s) == SplitFrom(s, 1, <<>>)

----------------------------------------------------------------------------
(* Line classifier *)

\* the alternatives of (INT|EXT|INT/EXT|I/E), in the order the regex tries them
SceneTokens == << <<"I","N","T">>, <<"E","X","T">>, <<"I","N","T","/","E","X","T">>, <<"I","/","E">> >>

\* s holds tok at position p, letter case ignored (re.IGNORECASE)
HasTokenAt(s, p, tok) ==
    /\ p + Len(tok) - 1 <= Len(s)
    /\ \A k \in 1..Len(tok) : ToLower(s[p + k - 1]) = ToLower(tok[k])

AllSpace(s, from, to) == \A i \in from..to : IsSpace(s[i])

\* SCENE_HEADING_RE.match(s): ^\s*(INT|EXT|INT/EXT|I/E)\.?\s
SCENE_HEADING_RE(s) ==
    \E j \in 0..Len(s) :
        /\ AllSpace(s, 1, j)
        /\ \E t \in 1..Len(SceneTokens) :
              /\ HasTokenAt(s, j + 1, SceneTokens[t])
              /\ LET q == j + 1 + Len(SceneTokens[t])
                 IN  \/ q <= Len(s) /\ IsSpace(s[q])
                     \/ q + 1 <= Len(s) /\ s[q] = "." /\ IsSpace(s[q + 1])

\* TRANSITION_RE.match(s): ^\s*[A-Z \t]+TO:\s*$
TRANSITION_RE(s) ==
    \E j \in 0..Len(s) : \E k \in 1..Len(s) :
        /\ j + k + 3 <= Len(s)
        /\ AllSpace(s, 1, j)
        /\ \A i \in (j + 1)..(j + k) : IsUpper(s[i]) \/ s[i] \in {" ", "\t"}
        /\ SubSeq(s, j + k + 1, j + k + 3) = <<"T","O",":">>
        /\ AllSpace(s, j + k + 4, Len(s))

NameChar(c) == IsUpper(c) \/ IsDigit(c) \/ c \in {" ", "-", "(", ")", "'", "."}

\* CHARACTER_RE.match(s): ^\s*[A-Z0-9 \-\(\)\'\.]+(?:\(.*\))?\s*$
CHARACTER_RE(s) ==
    \E j \in 0..Len(s) : \E k \in 1..Len(s) :
        /\ j + k <= Len(s)
        /\ AllSpace(s, 1, j)
        /\ \A i \in (j + 1)..(j + k) : NameChar(s[i])
        /\ \/ AllSpace(s, j + k + 1, Len(s))
           \/ /\ j + k + 1 <= Len(s)
              /\ s[j + k + 1] = "("
              /\ \E q \in (j + k + 2)..Len(s) :
                    /\ s[q] = ")"
                    /\ \A i \in (j + k + 2)..(q - 1) : s[i] # "\n"
                    /\ AllSpace(s, q + 1, Len(s))

is_scene_heading(line) == SCENE_HEADING_RE(Strip(line))

is_transition(line) == TRANSITION_RE(Strip(line))

CueMaxLen == 60

is_character_cue(line) ==
    LET s == Strip(line)
        alpha == Count(s, IsAlpha)
        upper == Count(s, IsUpper)
    IN  /\ s # <<>>
        /\ Len(s) <= CueMaxLen
        /\ ~(is_scene_heading(s) \/ is_transition(s))
        /\ alpha # 0
        /\ 10 * upper > 8 * alpha      \* upper / alpha > 0.8
        /\ CHARACTER_RE(s)

----------------------------------------------------------------------------
(* Screenplay parser: parse_fountain_text *)

\* current_scene = None
None == [none |-> TRUE]

K_Action == <<"A","c","t","i","o","n">>
K_Dialogue == <<"D","i","a","l","o","g","u","e">>

\* scene numbers counted from 0
NewScene_zeroBased(number, line) ==
    [scene_number |-> number - 1,
     scene_heading |-> Strip(line),
     beats |-> <<>>,
     characters |-> {}]

\* lines 64-69: the scene opened by a heading line
NewScene(number, line) ==
    [scene_number |-> number,
     scene_heading |-> Strip(line),
     beats |-> <<>>,
     characters |-> {}]

\* " ".join(l.strip() for l in buffer_action if l.strip())
ActionText(buf) ==
    LET stripped == [i \in 1..Len(buf) |-> Strip(buf[i])]
    IN  Join(SelectSeq(stripped, LAMBDA l : l # <<>>), <<" ">>)

\* a flush without the tests of lines 52 and 54
flush_action_as_beat_unchecked(cs, buf) ==
    IF cs = None
    THEN [scene |-> cs, buffer |-> buf, raised |-> TRUE]
    ELSE [scene |-> [cs EXCEPT !.beats = Append(@, <<K_Action, ActionText(buf)>>)],
          buffer |-> <<>>, raised |-> FALSE]

\* a flush that forgets to empty the buffer (line 56)
flush_action_as_beat_keepsBuffer(cs, buf) ==
    IF buf # <<>> /\ ActionText(buf) # <<>> /\ cs # None
    THEN [scene |-> [cs EXCEPT !.beats = Append(@, <<K_Action, ActionText(buf)>>)],
          buffer |-> buf, raised |-> FALSE]
    ELSE [scene |-> cs, buffer |-> buf, raised |-> buf # <<>> /\ cs = None]

\* flush_action_as_beat on the enclosing current_scene and buffer_action:
\* the scene and the buffer it leaves, and whether it raised (a subscript
\* on None)
flush_action_as_beat(cs, buf) ==
    IF buf # <<>>
    THEN LET t == ActionText(buf)
         IN  IF t # <<>>
             THEN IF cs = None
                  THEN [scene |-> cs, buffer |-> buf, raised |-> TRUE]
                  ELSE [scene |-> [cs EXCEPT !.beats = Append(@, <<K_Action, t>>)],
                        buffer |-> <<>>, raised |-> FALSE]
             ELSE [scene |-> cs, buffer |-> <<>>, raised |-> FALSE]
    ELSE [scene |-> cs, buffer |-> buf, raised |-> FALSE]

\* a heading handler that leaves the buffer as it is
flush_at_heading_skipped(cs, buf) == [scene |-> cs, buffer |-> buf, raised |-> FALSE]

\* line 62: the flush of the heading branch
flush_at_heading(cs, buf) == flush_action_as_beat(cs, buf)

\* a cue that is not registered
RegisterCue_skipped(characters, cue) == characters

\* line 85: current_scene["characters"].add(current_character)
RegisterCue(characters, cue) == characters \cup {cue}

\* a cue handler that leaves the buffer as it is
flush_at_cue_skipped(cs, buf) == [scene |-> cs, buffer |-> buf, raised |-> FALSE]

\* line 83: the flush of the cue handler
flush_at_cue(cs, buf) == flush_action_as_beat(cs, buf)

\* a Dialogue beat that loses its speaker
DialogueText_noSpeaker(character, txt) == txt

\* "{current_character}: {txt}"
DialogueText(character, txt) == character \o <<":"," ">> \o txt

\* the beats of a scene, none for None
BeatsOf(cs) == IF cs = None THEN <<>> ELSE cs.beats

\* history of a flush: the buffered line numbers become the new beat's
SrcAfter(before, after, src, new) ==
    IF Len(BeatsOf(after)) > Len(BeatsOf(before)) THEN Append(src, new) ELSE src

\* the line the loop is at: raw.rstrip("\n")
AtLine == pc = "loop" /\ idx <= Len(lines)
line == RStripNL(lines[idx])

\* a heading test that comes after the dialogue test
HeadingBranch_afterDialogue(l, character) ==
    is_scene_heading(l) /\ character = <<>>

\* line 60: the heading test, made before any other and whoever speaks
HeadingBranch(l, character) == is_scene_heading(l)

\* no test for an absent scene
NoSceneOpen_never(cs) == FALSE

\* the test of line 74, that skips the lines before the first heading
NoSceneOpen(cs) == cs = None

Raise ==
    /\ pc' = "raised"
    /\ UNCHANGED <<parser_vars, builder_vars, other_vars>>

\* lines 44-48
Start ==
    /\ pc = "start"
    /\ lines' = splitlines(text)
    /\ scenes' = <<>>
    /\ current_scene' = None
    /\ buffer_action' = <<>>
    /\ current_character' = <<>>
    /\ buffer_src' = <<>>
    /\ beat_src' = <<>>
    /\ scene_src' = <<>>
    /\ idx' = 1
    /\ pc' = "loop"
    /\ UNCHANGED <<text, builder_vars, other_vars>>

\* lines 60-72: a scene heading closes the open scene and opens the next
Heading ==
    /\ AtLine
    /\ HeadingBranch(line, current_character)
    /\ LET r == IF current_scene # None
                THEN flush_at_heading(current_scene, buffer_action)
                ELSE [scene |-> current_scene, buffer |-> buffer_action,
                      raised |-> FALSE]
           closed == IF current_scene # None
                     THEN Append(scenes, r.scene) ELSE scenes
       IN  IF r.raised THEN Raise
           ELSE /\ scenes' = closed
                /\ scene_src' =
                      IF current_scene # None
                      THEN Append(scene_src,
                                  SrcAfter(current_scene, r.scene, beat_src,
                                           buffer_src))
                      ELSE scene_src
                /\ current_scene' = NewScene(Len(closed) + 1, line)
                /\ buffer_action' = <<>>
                /\ current_character' = <<>>
                /\ buffer_src' = <<>>
                /\ beat_src' = <<>>
                /\ idx' = idx + 1
                /\ UNCHANGED <<text, lines, pc, builder_vars, other_vars>>

\* lines 74-75: a line before the first heading is skipped
PreScene ==
    /\ AtLine
    /\ ~HeadingBranch(line, current_character)
    /\ NoSceneOpen(current_scene)
    /\ idx' = idx + 1
    /\ UNCHANGED <<text, lines, pc, scenes, current_scene, buffer_action,
                   current_character, buffer_src, beat_src, scene_src,
                   builder_vars, other_vars>>

\* lines 77-80: a blank line flushes the buffer and ends the speaker's block
Blank ==
    /\ AtLine
    /\ ~HeadingBranch(line, current_character)
    /\ ~NoSceneOpen(current_scene)
    /\ Strip(line) = <<>>
    /\ LET r == flush_action_as_beat(current_scene, buffer_action)
       IN  IF r.raised THEN Raise
           ELSE /\ current_scene' = r.scene
                /\ buffer_action' = r.buffer
                /\ beat_src' = SrcAfter(current_scene, r.scene, beat_src,
                                        buffer_src)
                /\ buffer_src' = IF r.buffer = <<>> THEN <<>> ELSE buffer_src
                /\ current_character' = <<>>
                /\ idx' = idx + 1
                /\ UNCHANGED <<text, lines, pc, scenes, scene_src, builder_vars, other_vars>>

\* lines 82-86: a character cue flushes the buffer and becomes the speaker
Cue ==
    /\ AtLine
    /\ ~HeadingBranch(line, current_character)
    /\ ~NoSceneOpen(current_scene)
    /\ Strip(line) # <<>>
    /\ is_character_cue(line)
    /\ LET r == flush_at_cue(current_scene, buffer_action)
       IN  IF r.raised \/ r.scene = None THEN Raise
           ELSE /\ current_scene' =
                      [r.scene EXCEPT !.characters = RegisterCue(@, Strip(line))]
                /\ buffer_action' = r.buffer
                /\ beat_src' = SrcAfter(current_scene, r.scene, beat_src,
                                        buffer_src)
                /\ buffer_src' = IF r.buffer = <<>> THEN <<>> ELSE buffer_src
                /\ current_character' = Strip(line)
                /\ idx' = idx + 1
                /\ UNCHANGED <<text, lines, pc, scenes, scene_src, builder_vars, other_vars>>

\* lines 88-92: with a speaker active the line is a Dialogue beat
Dialogue ==
    /\ AtLine
    /\ ~HeadingBranch(line, current_character)
    /\ ~NoSceneOpen(current_scene)
    /\ Strip(line) # <<>>
    /\ ~is_character_cue(line)
    /\ current_character # <<>>
    /\ LET txt == Strip(line)
       IN  IF txt # <<>> /\ current_scene = None THEN Raise
           ELSE /\ current_scene' =
                      IF txt # <<>>
                      THEN [current_scene EXCEPT !.beats =
                              Append(@, <<K_Dialogue,
                                          DialogueText(current_character, txt)>>)]
                      ELSE current_scene
                /\ beat_src' = IF txt # <<>> THEN Append(beat_src, <<idx>>)
                               ELSE beat_src
                /\ idx' = idx + 1
                /\ UNCHANGED <<text, lines, pc, scenes, buffer_action,
                               current_character, buffer_src, scene_src,
                               builder_vars, other_vars>>

\* lines 94-96: a transition flushes the buffer and is dropped
Transition ==
    /\ AtLine
    /\ ~HeadingBranch(line, current_character)
    /\ ~NoSceneOpen(current_scene)
    /\ Strip(line) # <<>>
    /\ ~is_character_cue(line)
    /\ current_character = <<>>
    /\ is_transition(line)
    /\ LET r == flush_action_as_beat(current_scene, buffer_action)
       IN  IF r.raised THEN Raise
           ELSE /\ current_scene' = r.scene
                /\ buffer_action' = r.buffer
                /\ beat_src' = SrcAfter(current_scene, r.scene, beat_src,
                                        buffer_src)
                /\ buffer_src' = IF r.buffer = <<>> THEN <<>> ELSE buffer_src
                /\ idx' = idx + 1
                /\ UNCHANGED <<text, lines, pc, scenes, current_character,
                               scene_src, builder_vars, other_vars>>

\* line 98: any other line is buffered as action text
ActionLine ==
    /\ AtLine
    /\ ~HeadingBranch(line, current_character)
    /\ ~NoSceneOpen(current_scene)
    /\ Strip(line) # <<>>
    /\ ~is_character_cue(line)
    /\ current_character = <<>>
    /\ ~is_transition(line)
    /\ buffer_action' = Append(buffer_action, line)
    /\ buffer_src' = Append(buffer_src, idx)
    /\ idx' = idx + 1
    /\ UNCHANGED <<text, lines, pc, scenes, current_scene, current_character,
                   beat_src, scene_src, builder_vars, other_vars>>

\* lines 100-104: the end of the document closes the open scene
Finish ==
    /\ pc = "loop"
    /\ idx > Len(lines)
    /\ LET r == IF current_scene # None
                THEN flush_action_as_beat(current_scene, buffer_action)
                ELSE [scene |-> current_scene, buffer |-> buffer_action,
                      raised |-> FALSE]
       IN  IF r.raised THEN Raise
           ELSE /\ scenes' = IF current_scene # None
                             THEN Append(scenes, r.scene) ELSE scenes
                /\ scene_src' =
                      IF current_scene # None
                      THEN Append(scene_src,
                                  SrcAfter(current_scene, r.scene, beat_src,
                                           buffer_src))
                      ELSE scene_src
                /\ current_scene' = r.scene
                /\ buffer_action' = r.buffer
                /\ buffer_src' = IF r.buffer = <<>> THEN <<>> ELSE buffer_src
                /\ beat_src' = SrcAfter(current_scene, r.scene, beat_src,
                                        buffer_src)
                /\ pc' = "parsed"
                /\ UNCHANGED <<text, lines, idx, current_character, builder_vars, other_vars>>

----------------------------------------------------------------------------
(* Shotlist builder: build_shotlist_from_scenes *)

F_SceneNum == <<"S","c","e","n","e"," ","#">>
F_SceneHeading == <<"S","c","e","n","e"," ","H","e","a","d","i","n","g">>
F_BeatAction == <<"B","e","a","t","/","A","c","t","i","o","n">>
F_ShotNum == <<"S","h","o","t"," ","#">>
F_ShotType == <<"S","h","o","t"," ","T","y","p","e">>
F_Angle == <<"A","n","g","l","e">>
F_Movement == <<"M","o","v","e","m","e","n","t">>
F_Lens == <<"L","e","n","s">>
F_Duration == <<"D","u","r","a","t","i","o","n"," ","(","s",")">>
F_Location == <<"L","o","c","a","t","i","o","n">>
F_Characters == <<"C","h","a","r","a","c","t","e","r","s">>
F_Notes == <<"N","o","t","e","s">>

\* the logical fields and their aliases, in dict order
possible_map == <<
    [logical |-> F_SceneNum,
     aliases |-> <<F_SceneNum, <<"S","c","e","n","e">>, <<"S","c","e","n","e"," ","N","o">>, <<"S","c","e","n","e"," ","N","u","m","b","e","r">>>>],
    [logical |-> F_SceneHeading,
     aliases |-> <<F_SceneHeading, <<"H","e","a","d","i","n","g">>, <<"S","l","u","g","l","i","n","e">>>>],
    [logical |-> F_BeatAction,
     aliases |-> <<F_BeatAction, <<"B","e","a","t">>, <<"A","c","t","i","o","n">>, <<"D","e","s","c","r","i","p","t","i","o","n">>,
                   <<"W","h","a","t"," ","H","a","p","p","e","n","s">>>>],
    [logical |-> F_ShotNum,
     aliases |-> <<F_ShotNum, <<"S","h","o","t"," ","N","u","m","b","e","r">>, <<"S","h","o","t">>>>],
    [logical |-> F_ShotType, aliases |-> <<F_ShotType, <<"T","y","p","e">>>>],
    [logical |-> F_Angle, aliases |-> <<F_Angle>>],
    [logical |-> F_Movement, aliases |-> <<F_Movement, <<"M","o","v","e">>>>],
    [logical |-> F_Lens, aliases |-> <<F_Lens>>],
    [logical |-> F_Duration,
     aliases |-> <<F_Duration, <<"D","u","r","a","t","i","o","n">>, <<"E","s","t","."," ","D","u","r","a","t","i","o","n"," ","(","s",")">>>>],
    [logical |-> F_Location, aliases |-> <<F_Location>>],
    [logical |-> F_Characters, aliases |-> <<F_Characters, <<"C","a","s","t">>>>],
    [logical |-> F_Notes, aliases |-> <<F_Notes>>] >>

LogicalFields == {possible_map[k].logical : k \in 1..Len(possible_map)}

\* a match of any column that the alias starts with
AliasMatches_prefix(c, alias) ==
    LET col == Lower(Strip(c))
        a == Lower(Strip(alias))
    IN  Len(col) <= Len(a) /\ SubSeq(a, 1, Len(col)) = col

\* c.strip().lower() == alias.strip().lower()
AliasMatches(c, alias) == Lower(Strip(c)) = Lower(Strip(alias))

\* the aliases tried from the last to the first
FindMatch_lastAlias(aliases, cols) ==
    LET hit(a) == {i \in 1..Len(cols) : AliasMatches(cols[i], aliases[a])}
        found == {a \in 1..Len(aliases) : hit(a) # {} }
    IN  IF found = {} THEN <<>>
        ELSE <<cols[SetMin(hit(SetMax(found)))]>>

\* lines 125-132: the first alias, in order, that some column matches gives
\* the leftmost such column; <<>> is None, <<c>> is the match c
FindMatch(aliases, cols) ==
    LET hit(a) == {i \in 1..Len(cols) : AliasMatches(cols[i], aliases[a])}
        found == {a \in 1..Len(aliases) : hit(a) # {} }
    IN  IF found = {} THEN <<>>
        ELSE <<cols[SetMin(hit(SetMin(found)))]>>

\* lines 124-137 from field k on: the working column list and col_map
RECURSIVE ResolveFrom(_, _, _)
ResolveFrom(k, cols, cmap) ==
    IF k > Len(possible_map) THEN [columns |-> cols, col_map |-> cmap]
    ELSE LET logical == possible_map[k].logical
             m == FindMatch(possible_map[k].aliases, cols)
             match == IF m = <<>> THEN logical ELSE m[1]
             cols2 == IF m = <<>> /\ match \notin Range(cols)
                      THEN Append(cols, match) ELSE cols
         IN  ResolveFrom(k + 1, cols2, (logical :> match) @@ cmap)

\* lines 122-137, on a copy of the caller's list
ResolveColumns(cols) == ResolveFrom(1, cols, <<>>)

\* a column list that keeps its duplicates
Dedup_none(cols) == cols

\* lines 139-144: first occurrences, in order
RECURSIVE Dedup(_)
Dedup(cols) ==
    IF cols = <<>> THEN <<>>
    ELSE LET front == Dedup(SubSeq(cols, 1, Len(cols) - 1))
             c == cols[Len(cols)]
         IN  IF c \in Range(front) THEN front ELSE Append(front, c)

\* s < t in the order of sorted() on str
CodePoint == [c \in Range(CodeOrder) |->
                CHOOSE i \in 1..Len(CodeOrder) : CodeOrder[i] = c]

CodeOf(c) == CodePoint[c]

RECURSIVE StrLess(_, _)
StrLess(s, t) ==
    IF t = <<>> THEN FALSE
    ELSE IF s = <<>> THEN TRUE
    ELSE IF s[1] # t[1] THEN CodeOf(s[1]) < CodeOf(t[1])
    ELSE StrLess(Tail(s), Tail(t))

RECURSIVE Sorted(_)
Sorted(S) ==
    IF S = {} THEN <<>>
    ELSE LET least == CHOOSE x \in S : \A y \in S \ {x} : StrLess(x, y)
         IN  <<least>> \o Sorted(S \ {least})

\* a roster in descending order
CharList_descending(characters) ==
    LET up == Sorted(characters)
    IN  Join([i \in 1..Len(up) |-> up[Len(up) + 1 - i]], <<","," ">>)

\* line 150
CharList(characters) ==
    IF characters # {} THEN Join(Sorted(characters), <<","," ">>) ELSE <<>>

\* the prefix that re.sub removes at line 164:
\* ^\s*(INT|EXT|INT/EXT|I/E)\.?\s* with the first alternative that matches
StripSceneType(heading) ==
    LET lead == {j \in 0..Len(heading) : AllSpace(heading, 1, j)}
        j == SetMax(lead)
        toks == {t \in 1..Len(SceneTokens) : HasTokenAt(heading, j + 1, SceneTokens[t])}
    IN  IF toks = {} THEN heading
        ELSE LET q == j + 1 + Len(SceneTokens[SetMin(toks)])
                 q2 == IF q <= Len(heading) /\ heading[q] = "." THEN q + 1 ELSE q
                 rest == {e \in (q2 - 1)..Len(heading) : AllSpace(heading, q2, e)}
             IN  SubSeq(heading, SetMax(rest) + 1, Len(heading))

\* re.split(r'\s*-\s*', s)[0]: the text before the first hyphen and the
\* whitespace in front of it
FirstSegment(s) ==
    LET hyphens == {i \in 1..Len(s) : s[i] = "-"}
    IN  IF hyphens = {} THEN s
        ELSE LET h == SetMin(hyphens)
                 starts == {b \in 1..h : AllSpace(s, b, h - 1)}
             IN  SubSeq(s, 1, SetMin(starts) - 1)

\* lines 162-167
Location(heading) == Strip(FirstSegment(StripSceneType(heading)))

\* row[col] = v
SetCell(row, col, v) ==
    [c \in DOMAIN row \cup {col} |-> IF c = col THEN v ELSE row[c]]

RECURSIVE SetCells(_, _, _)
SetCells(row, cmap, cells) ==
    IF cells = <<>> THEN row
    ELSE SetCells(SetCell(row, cmap[cells[1][1]], cells[1][2]), cmap, Tail(cells))

\* "[{kind}] {beat_text}"
BeatCell(beat) == <<"[">> \o beat[1] \o <<"]"," ">> \o beat[2]

\* the shot counter before the first beat of a scene (line 151)
FirstShot == 1

\* a counter that is never advanced
NextShot_stuck(shot_counter) == shot_counter

\* the shot counter after a row (line 172)
NextShot(shot_counter) == shot_counter + 1

\* lines 153-170: the row of one beat
Row(sc, beat, shot_counter, ucols, cmap) ==
    SetCells([c \in Range(ucols) |-> <<>>], cmap,
             << <<F_SceneNum, sc.scene_number>>,
                <<F_SceneHeading, sc.scene_heading>>,
                <<F_BeatAction, BeatCell(beat)>>,
                <<F_ShotNum, shot_counter>>,
                <<F_ShotType, <<"M","S">>>>,
                <<F_Angle, <<"E","y","e","-","l","e","v","e","l">>>>,
                <<F_Movement, <<"S","t","a","t","i","c">>>>,
                <<F_Lens, <<"3","5","m","m">>>>,
                <<F_Location, Location(sc.scene_heading)>>,
                <<F_Characters, CharList(sc.characters)>>,
                <<F_Notes, <<>> >> >>)

\* lines 151-172: the rows of one scene from beat b on
RECURSIVE SceneRows(_, _, _, _, _)
SceneRows(sc, b, shot_counter, ucols, cmap) ==
    IF b > Len(sc.beats) THEN <<>>
    ELSE <<Row(sc, sc.beats[b], shot_counter, ucols, cmap)>>
         \o SceneRows(sc, b + 1, NextShot(shot_counter), ucols, cmap)

\* rows for the first scene only
AllRows_firstScene(scs, ucols, cmap) ==
    IF scs = <<>> THEN <<>> ELSE SceneRows(scs[1], 1, FirstShot, ucols, cmap)

\* lines 146-172
RECURSIVE AllRows(_, _, _)
AllRows(scs, ucols, cmap) ==
    IF scs = <<>> THEN <<>>
    ELSE SceneRows(scs[1], 1, FirstShot, ucols, cmap)
         \o AllRows(Tail(scs), ucols, cmap)

\* pd.DataFrame(rows, columns=uniq_cols): the cells of the listed columns
Frame(rs, ucols) ==
    [r \in 1..Len(rs) |-> [c \in Range(ucols) |-> rs[r][c]]]

\* the default schema of find_reference_columns_from_df
default_cols == <<F_SceneNum, F_SceneHeading, F_BeatAction, F_ShotNum, F_ShotType,
                  F_Angle, F_Movement, F_Lens, F_Duration, F_Location,
                  F_Characters, F_Notes>>

\* the schemas a caller hands in
Schemas == {
    <<>>,
    default_cols,
    << <<"S","c","e","n","e">>, <<"S","c","e","n","e"," ","#">>, <<"s","h","o","t">>, <<"S","h","o","t">>, <<"S","h","o","t"," ","#">> >>,
    << <<" ","S","H","O","T"," ","N","U","M","B","E","R"," ">>, <<"T","y","p","e">>, <<"C","a","s","t">>, <<"C","a","s","t">>, <<"T","a","k","e">> >>,
    << <<"S","l","u","g","l","i","n","e">>, <<"H","e","a","d","i","n","g">>, <<"l","o","c","a","t","i","o","n">>, <<"L","o","c","a","t","i","o","n">>,
       <<"N","o","t","e","s">>, <<"N","o","t","e","s">> >>,
    << <<"W","h","a","t"," ","H","a","p","p","e","n","s">>, <<"B","e","a","t">>, <<"E","s","t","."," ","D","u","r","a","t","i","o","n"," ","(","s",")">>, <<"M","o","v","e">>,
       <<>> >> }

\* s.startswith(p)
StartsWith(s, p) == Len(s) >= Len(p) /\ SubSeq(s, 1, Len(p)) = p

\* lines 8-18 on a frame df0, a record with the field columns; any other
\* object raises at line 14 and gives the default schema
find_reference_columns_from_df(df0) ==
    IF "columns" \notin DOMAIN df0 THEN default_cols
    ELSE LET stripped == [i \in 1..Len(df0.columns) |-> Strip(df0.columns[i])]
             cols == SelectSeq(stripped,
                        LAMBDA c : c # <<>> /\ ~StartsWith(Lower(c), <<"u","n","n","a","m","e","d">>))
         IN  IF cols # <<>> THEN cols ELSE default_cols

\* the frames of lines 181-192: the first sheet of a reference file, or the
\* empty frame when there is no reference file or it cannot be read
ReferenceFrames ==
    {[columns |-> s] : s \in Schemas} \cup
    {[columns |-> << <<>>, <<"U","n","n","a","m","e","d",":"," ","0">>, <<" ","u","n","n","a","m","e","d"," ","3"," ">> >>]}

\* reference_columns at line 194
ReferenceSchemas == {find_reference_columns_from_df(f) : f \in ReferenceFrames}

\* ResolveColumns of every schema of the model
Resolved == [schema \in Schemas \cup ReferenceSchemas |-> ResolveColumns(schema)]

\* a builder that appends to the list it was handed
CallerList_aliased(original, working) == working

\* line 123: the builder works on a copy, the caller's list is as it was
CallerList(original, working) == original

\* lines 107-175 on the schema the caller hands in
BuildWith(schema) ==
    LET res == IF schema \in DOMAIN Resolved THEN Resolved[schema]
               ELSE ResolveColumns(schema)
        ucols == Dedup(res.columns)
    IN  /\ columns' = CallerList(schema, res.columns)
        /\ col_map' = res.col_map
        /\ uniq_cols' = ucols
        /\ rows' = Frame(AllRows(scenes, ucols, res.col_map), ucols)

\* lines 107-175 as one call on the parsed scenes (line 201)
Build ==
    /\ pc = "parsed"
    /\ \E schema \in Schemas : BuildWith(schema)
    /\ pc' = "built"
    /\ UNCHANGED <<parser_vars, other_vars>>

----------------------------------------------------------------------------
(* Documents *)

L_Blank == <<>>
L_Heading == <<"I","N","T","."," ","A"," ","-"," ","B">>
L_HeadingIntExt == <<"I","N","T","/","E","X","T","."," ","H">>
L_Cue == <<"J","O">>
L_Transition == <<"C","U","T"," ","T","O",":">>
L_BareTo == <<"T","O",":">>
L_Action == <<" ","g","o"," ">>

LineVocab == {L_Blank, L_Heading, L_HeadingIntExt, L_Cue, L_Transition,
              L_BareTo, L_Action}

RECURSIVE SeqsUpTo(_, _)
SeqsUpTo(S, n) ==
    IF n = 0 THEN {<<>>}
    ELSE LET shorter == SeqsUpTo(S, n - 1)
         IN  shorter \cup {Append(s, x) : s \in shorter, x \in S}

\* the documents: up to MaxLines lines joined by "\n"
Texts == {Join(ls, <<"\n">>) : ls \in SeqsUpTo(LineVocab, MaxLines)}

\* the state in which one of the documents docs is about to be parsed
InitFrom(docs) ==
    /\ text \in docs
    /\ lines = <<>>
    /\ idx = 1
    /\ pc = "start"
    /\ scenes = <<>>
    /\ current_scene = None
    /\ buffer_action = <<>>
    /\ current_character = <<>>
    /\ columns = <<>>
    /\ col_map = <<>>
    /\ uniq_cols = <<>>
    /\ rows = <<>>
    /\ buffer_src = <<>>
    /\ beat_src = <<>>
    /\ scene_src = <<>>
    /\ doc = 1
    /\ probe = <<>>
    /\ verdict = "none"
    /\ up_files = <<text>>

Init == InitFrom(Texts)

Next ==
    \/ Start
    \/ Heading
    \/ PreScene
    \/ Blank
    \/ Cue
    \/ Dialogue
    \/ Transition
    \/ ActionLine
    \/ Finish
    \/ Build

Spec == Init /\ [][Next]_vars

\* documents with several speakers
L_CueAl == <<"A","L">>
L_CueAlB == <<"A","L"," ","B">>

CastVocab == {L_Blank, L_Heading, L_Cue, L_CueAl, L_CueAlB, L_Transition,
              L_Action}

CastTexts == {Join(ls, <<"\n">>) : ls \in SeqsUpTo(CastVocab, MaxLines)}

InitCast == InitFrom(CastTexts)

SpecCast == InitCast /\ [][Next]_vars

----------------------------------------------------------------------------
(* Properties *)

Parsed == pc \in {"parsed", "built"}
Built == pc = "built"

\* the finalized scenes, and the open one while the loop runs
EveryScene ==
    IF pc = "loop" /\ current_scene # None THEN Append(scenes, current_scene)
    ELSE scenes

\* the line numbers behind every beat of EveryScene
EverySrc ==
    IF pc = "loop" /\ current_scene # None THEN Append(scene_src, beat_src)
    ELSE scene_src

RECURSIVE BeatCount(_)
BeatCount(scs) ==
    IF scs = <<>> THEN 0 ELSE Len(scs[1].beats) + BeatCount(Tail(scs))

\* the number of rows in front of the rows of scene k
RowOffset(k) == BeatCount(SubSeq(scenes, 1, k - 1))

\* the numbers of the lines that are scene headings, in document order
HeadingLines == SelectSeq([i \in 1..Len(lines) |-> i],
                          LAMBDA i : is_scene_heading(lines[i]))

\* C1: the builder returns as many rows as the parser's scenes hold beats,
\* a scene without beats adding none
RowsEqualBeats == Built => Len(rows) = BeatCount(scenes)

RowsEqualBeatsWitness ==
    /\ Built
    /\ Len(rows) >= 1
    /\ Len(scenes) >= 2
    /\ \E k \in 1..Len(scenes) : scenes[k].beats = <<>>

\* C2: in the column resolved for "Shot #" the first row of every scene
\* holds 1 and every later row of the scene one more than the row before
ShotNumbersRestart ==
    Built =>
        \A k \in 1..Len(scenes) : \A b \in 1..Len(scenes[k].beats) :
            LET r == RowOffset(k) + b
            IN  rows[r][col_map[F_ShotNum]] =
                   IF b = 1 THEN 1 ELSE rows[r - 1][col_map[F_ShotNum]] + 1

ShotNumbersRestartWitness ==
    /\ Built
    /\ col_map[F_ShotNum] # F_ShotNum
    /\ Len(scenes) >= 2
    /\ Len(scenes[1].beats) >= 1
    /\ Len(scenes[2].beats) >= 1
    /\ rows[Len(rows)][col_map[F_ShotNum]] = 1

\* C3: N heading lines give N scenes, numbered 1..N in the order of their
\* headings; without a heading there is no scene and no row
SceneNumbersContiguous ==
    Parsed =>
        /\ Len(scenes) = Len(HeadingLines)
        /\ \A k \in 1..Len(scenes) :
              /\ scenes[k].scene_number = k
              /\ scenes[k].scene_heading = Strip(lines[HeadingLines[k]])
        /\ (HeadingLines = <<>> /\ Built) => rows = <<>>

SceneNumbersContiguousWitness ==
    /\ Built
    /\ Len(scenes) = 3
    /\ scenes[1].scene_heading # scenes[2].scene_heading
    /\ scenes[3].scene_number = 3

\* C4: no beat of any scene is built from a line that is a transition
TransitionsNeverBeats ==
    \A k \in 1..Len(EverySrc) : \A b \in 1..Len(EverySrc[k]) :
        \A i \in Range(EverySrc[k][b]) : ~is_transition(lines[i])

\* the Location the heading stands for: the heading without its whole
\* scene-type token, the period and the whitespace after it, up to the
\* first hyphen, trimmed
WholeTokenEnd(heading) ==
    LET ends == {q \in 1..Len(heading) :
                    \E t \in 1..Len(SceneTokens) :
                       /\ HasTokenAt(heading, 1, SceneTokens[t])
                       /\ q = Len(SceneTokens[t]) + 1
                       /\ \/ q <= Len(heading) /\ IsSpace(heading[q])
                          \/ /\ q + 1 <= Len(heading)
                             /\ heading[q] = "."
                             /\ IsSpace(heading[q + 1])}
        q == SetMax(ends)
    IN  IF heading[q] = "." THEN q + 1 ELSE q

HeadingPlace(heading) ==
    Strip(FirstSegment(LStrip(SubSeq(heading, WholeTokenEnd(heading),
                                     Len(heading)))))

\* C5: the Location cell of every row is its heading without the whole
\* scene-type token, cut at the first hyphen and trimmed
LocationDropsWholeToken ==
    Built =>
        \A r \in 1..Len(rows) :
            rows[r][col_map[F_Location]] =
               HeadingPlace(rows[r][col_map[F_SceneHeading]])

\* C6: every logical field resolves to one column of the output list, no
\* two fields to the same column, and a field's cell keeps the field's value
ResolutionInjective ==
    Built =>
        /\ DOMAIN col_map = LogicalFields
        /\ \A f \in LogicalFields : col_map[f] \in Range(uniq_cols)
        /\ \A f, g \in LogicalFields : f # g => col_map[f] # col_map[g]
        /\ \A k \in 1..Len(scenes) : \A b \in 1..Len(scenes[k].beats) :
              LET row == rows[RowOffset(k) + b]
              IN  /\ row[col_map[F_SceneNum]] = scenes[k].scene_number
                  /\ row[col_map[F_SceneHeading]] = scenes[k].scene_heading
                  /\ row[col_map[F_BeatAction]] = BeatCell(scenes[k].beats[b])
                  /\ row[col_map[F_ShotNum]] = b
                  /\ row[col_map[F_ShotType]] = <<"M","S">>
                  /\ row[col_map[F_Angle]] = <<"E","y","e","-","l","e","v","e","l">>
                  /\ row[col_map[F_Movement]] = <<"S","t","a","t","i","c">>
                  /\ row[col_map[F_Lens]] = <<"3","5","m","m">>
                  /\ row[col_map[F_Duration]] = <<>>
                  /\ row[col_map[F_Characters]] = CharList(scenes[k].characters)
                  /\ row[col_map[F_Notes]] = <<>>

ResolutionInjectiveWitness ==
    /\ Built
    /\ rows # <<>>
    /\ Cardinality(Range(columns)) < Len(columns)
    /\ \E f \in LogicalFields : col_map[f] \in Range(columns) /\ col_map[f] # f
    /\ \E f \in LogicalFields : col_map[f] \notin Range(columns)

\* the beat was built from the lines numbered src
BuiltFrom(sc, beat, src) ==
    IF beat[1] = K_Action
    THEN beat[2] = ActionText([n \in 1..Len(src) |-> lines[src[n]]])
    ELSE /\ Len(src) = 1
         /\ \E c \in sc.characters :
               beat[2] = DialogueText(c, Strip(lines[src[1]]))

\* C7: the beats of a scene are in document order: every line of a beat
\* precedes every line of the beat after it
BeatsInDocumentOrder ==
    \A k \in 1..Len(EveryScene) :
        LET sc == EveryScene[k]
            src == EverySrc[k]
        IN  /\ Len(src) = Len(sc.beats)
            /\ \A b \in 1..Len(src) : BuiltFrom(sc, sc.beats[b], src[b])
            /\ \A b \in 1..(Len(src) - 1) :
                  \A i \in Range(src[b]) : \A j \in Range(src[b + 1]) : i < j

BeatsInDocumentOrderWitness ==
    /\ Parsed
    /\ \E k \in 1..Len(scenes) : \E b \in 1..(Len(scenes[k].beats) - 1) :
          /\ scenes[k].beats[b][1] = K_Action
          /\ scenes[k].beats[b + 1][1] = K_Dialogue

\* C8: a line that is exactly "TO:", met in an open scene with no speaker
\* active, is neither buffered as action text nor part of an Action beat
BareToEndsAction ==
    /\ \A i \in Range(buffer_src) : Strip(lines[i]) # <<"T","O",":">>
    /\ \A k \in 1..Len(EveryScene) : \A b \in 1..Len(EverySrc[k]) :
          EveryScene[k].beats[b][1] = K_Action =>
             \A i \in Range(EverySrc[k][b]) : Strip(lines[i]) # <<"T","O",":">>

\* C9: no beat is empty: an Action beat has text and comes from buffered
\* lines, a Dialogue beat has a speaker and text after the ": "
NoEmptyBeat ==
    \A k \in 1..Len(EveryScene) :
        LET sc == EveryScene[k]
        IN  \A b \in 1..Len(sc.beats) :
               LET beat == sc.beats[b]
               IN  IF beat[1] = K_Action
                   THEN Strip(beat[2]) # <<>> /\ EverySrc[k][b] # <<>>
                   ELSE \E c \in sc.characters :
                           LET n == Len(c) + 2
                           IN  /\ c # <<>>
                               /\ Len(beat[2]) > n
                               /\ SubSeq(beat[2], 1, n) = c \o <<":"," ">>
                               /\ Strip(SubSeq(beat[2], n + 1, Len(beat[2]))) # <<>>

NoEmptyBeatWitness ==
    /\ Parsed
    /\ Len(lines) >= 3
    /\ is_scene_heading(lines[1])
    /\ Strip(lines[2]) = <<>>
    /\ Len(scenes) = 1
    /\ scenes[1].beats # <<>>

\* the lines of scene k: from its heading to the next heading
SceneSpan(k) ==
    (HeadingLines[k] + 1) ..
        (IF k < Len(HeadingLines) THEN HeadingLines[k + 1] - 1 ELSE Len(lines))

\* C10: the parser never raises on an absent scene: nothing is buffered
\* and nobody speaks while no scene is open; a text without heading gives
\* no scene, a scene of blank lines no beat
ParserNeverRaises ==
    /\ pc # "raised"
    /\ pc = "loop" => idx <= Len(lines) + 1
    /\ current_scene = None => buffer_action = <<>> /\ current_character = <<>>
    /\ Parsed =>
          /\ HeadingLines = <<>> => scenes = <<>>
          /\ Len(scenes) = Len(HeadingLines)
          /\ \A k \in 1..Len(scenes) :
                (\A i \in SceneSpan(k) : Strip(lines[i]) = <<>>)
                   => scenes[k].beats = <<>>

ParserNeverRaisesWitness ==
    /\ Parsed
    /\ Len(lines) = 4
    /\ Strip(lines[1]) = <<>>
    /\ is_character_cue(lines[2])
    /\ is_transition(lines[3])
    /\ scenes = <<>>

\* what the classifier says of every line a document is made of
LineClass ==
    [l \in LineVocab \cup CastVocab |->
        [heading |-> is_scene_heading(l),
         blank |-> Strip(l) = <<>>,
         cue |-> is_character_cue(l),
         transition |-> is_transition(l)]]

\* the number of heading lines among the first n lines
HeadingsBefore(n) ==
    Cardinality({i \in 1..n : LineClass[lines[i]].heading})

\* C11: a heading line is a heading in every parser state: once the loop
\* has passed it, the scenes before it are closed, the scene it opened is
\* empty, nothing is buffered and nobody speaks; it is in no beat and is
\* nobody's cue
HeadingAlwaysHeading ==
    /\ (pc = "loop" /\ idx > 1 /\ is_scene_heading(lines[idx - 1])) =>
          /\ current_scene # None
          /\ current_scene.scene_heading = Strip(lines[idx - 1])
          /\ current_scene.scene_number = HeadingsBefore(idx - 1)
          /\ current_scene.beats = <<>>
          /\ current_scene.characters = {}
          /\ Len(scenes) = HeadingsBefore(idx - 2)
          /\ buffer_action = <<>>
          /\ current_character = <<>>
    /\ \A k \in 1..Len(EverySrc) : \A b \in 1..Len(EverySrc[k]) :
          \A i \in Range(EverySrc[k][b]) : ~is_scene_heading(lines[i])
    /\ \A k \in 1..Len(EveryScene) :
          \A c \in EveryScene[k].characters : ~is_scene_heading(c)

HeadingAlwaysHeadingWitness ==
    /\ pc = "loop"
    /\ idx = 4
    /\ is_scene_heading(lines[1])
    /\ is_character_cue(lines[2])
    /\ is_scene_heading(lines[3])
    /\ Len(scenes) = 1
    /\ scenes[1].characters # {}

\* s comes before t in code point order, a proper prefix before its extensions
Precedes(s, t) ==
    \E i \in 1..(Len(t)) :
        /\ \A j \in 1..(i - 1) : j <= Len(s) /\ s[j] = t[j]
        /\ \/ i = Len(s) + 1
           \/ i <= Len(s) /\ CodeOf(s[i]) < CodeOf(t[i])

\* the names of S in ascending order, joined by ", "
Roster(S) ==
    LET n == Cardinality(S)
        order == CHOOSE o \in [1..n -> S] :
                    \A i \in 1..n : \A j \in 1..n : i < j => Precedes(o[i], o[j])
    IN  IF S = {} THEN <<>> ELSE Join(order, <<","," ">>)

\* C12: every row of a scene carries the scene's whole character set in
\* ascending order joined by ", ", whatever the order of the cues and
\* wherever the row's beat stands
CharactersCellSorted ==
    Built =>
        \A k \in 1..Len(scenes) : \A b \in 1..Len(scenes[k].beats) :
            rows[RowOffset(k) + b][col_map[F_Characters]] =
               Roster(scenes[k].characters)

CharactersCellSortedWitness ==
    /\ Built
    /\ Len(lines) = 4
    /\ Strip(lines[3]) = L_Cue
    /\ Strip(lines[4]) = L_CueAl
    /\ Len(scenes) = 1
    /\ Len(rows) = 1
    /\ scenes[1].beats[1][1] = K_Action
    /\ rows[1][col_map[F_Characters]] = <<"A","L",","," ","J","O">>

\* line i ends or begins a block of speech: a heading, a blank line or a cue
Breaks(i) ==
    \/ LineClass[lines[i]].heading
    \/ LineClass[lines[i]].blank
    \/ LineClass[lines[i]].cue

\* line i is a cue that the parser takes as one: no heading, no blank line,
\* and not a line before the first heading
MakesSpeaker(i) ==
    /\ ~LineClass[lines[i]].heading
    /\ ~LineClass[lines[i]].blank
    /\ LineClass[lines[i]].cue
    /\ HeadingsBefore(i) > 0

\* the last line before line n that ends or begins a block of speech, 0 for none
LastBreak(n) ==
    LET B == {j \in 1..(n - 1) : Breaks(j)}
    IN  IF B = {} THEN 0 ELSE SetMax(B)

\* who speaks when the loop reaches line n, <<>> for nobody
SpeakerAt(n) ==
    LET j == LastBreak(n)
    IN  IF j > 0 /\ MakesSpeaker(j) THEN Strip(lines[j]) ELSE <<>>

\* line i is spoken: neither blank, heading nor cue, while somebody speaks
Spoken(i) == ~Breaks(i) /\ SpeakerAt(i) # <<>>

\* the number of the scene line i stands in
SceneOf(i) == HeadingsBefore(i)

\* C13: a Dialogue beat belongs to the most recent cue of its scene with no
\* blank line and no heading in between: every spoken line gives exactly one
\* Dialogue beat "speaker: trimmed line" and keeps the speaker; after a
\* blank line or a heading no line gives a Dialogue beat before the next cue
DialogueAttribution ==
    /\ pc = "loop" => current_character = SpeakerAt(idx)
    /\ pc \in {"loop", "parsed", "built"} =>
          LET done == IF pc = "loop" THEN idx - 1 ELSE Len(lines)
          IN  /\ \A i \in 1..done :
                    Spoken(i) =>
                       Cardinality({b \in 1..Len(EveryScene[SceneOf(i)].beats) :
                          /\ EveryScene[SceneOf(i)].beats[b][1] = K_Dialogue
                          /\ EverySrc[SceneOf(i)][b] = <<i>>
                          /\ EveryScene[SceneOf(i)].beats[b][2] =
                                SpeakerAt(i) \o <<":"," ">> \o Strip(lines[i])}) = 1
              /\ \A k \in 1..Len(EveryScene) :
                    \A b \in 1..Len(EveryScene[k].beats) :
                       EveryScene[k].beats[b][1] = K_Dialogue =>
                          \E i \in 1..done :
                             /\ EverySrc[k][b] = <<i>>
                             /\ Spoken(i)
                             /\ SceneOf(i) = k
                             /\ \A c \in 1..Len(EveryScene[k].beats) :
                                   EverySrc[k][c] = <<i>> /\
                                   EveryScene[k].beats[c][1] = K_Dialogue
                                      => c = b

DialogueAttributionWitness ==
    /\ Parsed
    /\ Len(lines) = 4
    /\ is_scene_heading(lines[1])
    /\ Strip(lines[2]) = L_Cue
    /\ Strip(lines[3]) = <<"g","o">>
    /\ Strip(lines[4]) = L_Transition
    /\ Len(scenes) = 1
    /\ scenes[1].beats = << <<K_Dialogue, <<"J","O",":"," ","g","o">>>>,
                            <<K_Dialogue, <<"J","O",":"," ","C","U","T"," ","T","O",":">>>> >>

\* column c carries the name a, whatever the case and the blanks around it
AllNames ==
    UNION {Range(s) : s \in Schemas \cup ReferenceSchemas} \cup
    UNION {Range(possible_map[k].aliases) : k \in 1..Len(possible_map)}
NameKey == [n \in AllNames |-> Lower(Strip(n))]
SameName(c, a) == NameKey[c] = NameKey[a]

\* the schema has a column for the field's own name, and one for another
\* alias of the field
BothInSchema(k) ==
    /\ \E i \in 1..Len(columns) : SameName(columns[i], possible_map[k].logical)
    /\ \E i \in 1..Len(columns) : \E a \in 1..Len(possible_map[k].aliases) :
          /\ ~SameName(possible_map[k].aliases[a], possible_map[k].logical)
          /\ SameName(columns[i], possible_map[k].aliases[a])

\* C14 as claimed: the field's own name is its last alias, so that a schema
\* with a column for another alias and a column for the field's own name
\* resolves the field to the other alias's column
CanonicalNameIsLastAlias ==
    Built =>
        \A k \in 1..Len(possible_map) :
            BothInSchema(k) =>
                ~SameName(col_map[possible_map[k].logical],
                          possible_map[k].logical)

\* C14 as amended: the field's own name is its first alias: a schema with a
\* column for the field's own name resolves the field to the leftmost such
\* column whatever other aliases it has columns for; otherwise the field
\* resolves to the leftmost column of the first alias, in the order of the
\* catalog, that has one; with no column for any alias it resolves to its
\* own name, appended to the output columns
CanonicalNameIsFirstAlias ==
    Built =>
        \A k \in 1..Len(possible_map) :
            LET f == possible_map[k].logical
                al == possible_map[k].aliases
                cols(a) == {i \in 1..Len(columns) : SameName(columns[i], al[a])}
            IN  /\ al[1] = f
                /\ \A a \in 1..Len(al) :
                      (cols(a) # {} /\ \A e \in 1..(a - 1) : cols(e) = {})
                         => col_map[f] = columns[SetMin(cols(a))]
                /\ (\A a \in 1..Len(al) : cols(a) = {})
                      => /\ col_map[f] = f
                         /\ f \in Range(uniq_cols)
                         /\ f \notin Range(columns)

CanonicalNameIsFirstAliasWitness ==
    /\ Built
    /\ rows # <<>>
    /\ \E k \in 1..Len(possible_map) :
          /\ possible_map[k].logical = F_SceneNum
          /\ BothInSchema(k)
          /\ columns[1] = <<"S","c","e","n","e">>
          /\ columns[2] = F_SceneNum
    /\ col_map[F_SceneNum] = F_SceneNum
    /\ col_map[F_ShotNum] = F_ShotNum
    /\ col_map[F_Notes] = F_Notes
    /\ F_Notes \notin Range(columns)

----------------------------------------------------------------------------
(* is_character_cue on single lines *)

\* the longest tail of a probed line
MaxProbeLen == 3

ProbeAlphabet == {"A", "b", "1", " ", "(", ")"}

\* what a probed line starts with: nothing, a short name, a name of 58
\* letters, a scene type, a transition
ProbeHeads == {<<>>, <<"A","A","A","A">>, <<"A","A","A","A","A","A","A","A","A","A","A","A","A","A","A","A","A","A","A","A","A","A","A","A","A","A","A","A","A","A","A","A","A","A","A","A","A","A","A","A","A","A","A","A","A","A","A","A","A","A","A","A","A","A","A","A","A","A">>,
               <<"I","N","T","."," ">>, <<"C","U","T"," ","T","O",":">>}

Probes == {h \o t : h \in ProbeHeads, t \in SeqsUpTo(ProbeAlphabet, MaxProbeLen)}

InitCue ==
    /\ probe \in Probes
    /\ verdict = "none"
    /\ pc = "probe"
    /\ text = <<>>
    /\ lines = <<>>
    /\ idx = 1
    /\ scenes = <<>>
    /\ current_scene = None
    /\ buffer_action = <<>>
    /\ current_character = <<>>
    /\ columns = <<>>
    /\ col_map = <<>>
    /\ uniq_cols = <<>>
    /\ rows = <<>>
    /\ buffer_src = <<>>
    /\ beat_src = <<>>
    /\ scene_src = <<>>
    /\ doc = 1
    /\ up_files = <<>>

\* is_character_cue(probe)
ClassifyCue ==
    /\ pc = "probe"
    /\ verdict = "none"
    /\ verdict' = IF is_character_cue(probe) THEN "cue" ELSE "other"
    /\ UNCHANGED <<pc, probe, doc, up_files, parser_vars, builder_vars>>

NextCue == ClassifyCue

SpecCue == InitCue /\ [][NextCue]_vars

\* a letter of either case, a digit, or one of the signs a name may hold
ClaimedNameChar(c) ==
    IsAlpha(c) \/ IsDigit(c) \/ c \in {" ", "-", "(", ")", "'", "."}

\* only such characters, optionally followed by a parenthetical extension
ClaimedNamePattern(s) ==
    \E k \in 1..Len(s) :
        /\ \A i \in 1..k : ClaimedNameChar(s[i])
        /\ \/ k = Len(s)
           \/ /\ k + 2 <= Len(s)
              /\ s[k + 1] = "("
              /\ s[Len(s)] = ")"

\* the cases the claim excludes
CueExcluded(s) ==
    \/ s = <<>>
    \/ Len(s) > 60
    \/ is_scene_heading(s)
    \/ is_transition(s)
    \/ Count(s, IsAlpha) = 0

\* C15: a trimmed line that is non-empty, at most 60 long, neither heading
\* nor transition and has a letter is a cue iff more than 80% of its letters
\* are uppercase and it consists of letters, digits, spaces, hyphens,
\* parentheses, apostrophes and periods, optionally followed by a
\* parenthetical extension; an excluded line is no cue
CueIffRatioAndLetters ==
    verdict # "none" =>
        LET s == Strip(probe)
        IN  verdict = "cue" <=>
               /\ ~CueExcluded(s)
               /\ 10 * Count(s, IsUpper) > 8 * Count(s, IsAlpha)
               /\ ClaimedNamePattern(s)

\* the schema without the later copies of a name
FirstSeen(cols) ==
    LET keep == SelectSeq([i \in 1..Len(cols) |-> i],
                          LAMBDA i : \A j \in 1..(i - 1) : cols[j] # cols[i])
    IN  [n \in 1..Len(keep) |-> cols[keep[n]]]

\* the names of the catalog, in its order
CatalogNames == [k \in 1..Len(possible_map) |-> possible_map[k].logical]

\* the fields no column of the schema carries an alias of, in catalog order
Unmatched(cols) ==
    LET miss == SelectSeq([k \in 1..Len(possible_map) |-> k],
                   LAMBDA k : \A i \in 1..Len(cols) :
                      \A a \in 1..Len(possible_map[k].aliases) :
                         ~SameName(cols[i], possible_map[k].aliases[a]))
    IN  [n \in 1..Len(miss) |-> CatalogNames[miss[n]]]

\* C16: the output columns are the schema without exact duplicates (first
\* kept, in order) followed by the names of the fields that matched no
\* column, in catalog order; every row has exactly these keys and holds the
\* empty string in every column no field resolves to; the empty schema gives
\* the 12 catalog names in catalog order
OutputColumns ==
    Built =>
        /\ uniq_cols = FirstSeen(columns) \o Unmatched(columns)
        /\ \A r \in 1..Len(rows) :
              /\ DOMAIN rows[r] = Range(uniq_cols)
              /\ \A c \in Range(uniq_cols) :
                    (\A f \in LogicalFields : col_map[f] # c)
                       => rows[r][c] = <<>>
        /\ columns = <<>> =>
              /\ uniq_cols = CatalogNames
              /\ Len(uniq_cols) = 12

OutputColumnsWitness ==
    /\ Built
    /\ Len(rows) = 2
    /\ Len(columns) = 5
    /\ columns[3] = <<"C","a","s","t">>
    /\ columns[4] = <<"C","a","s","t">>
    /\ columns[5] = <<"T","a","k","e">>
    /\ Len(uniq_cols) = 13
    /\ uniq_cols[4] = <<"T","a","k","e">>
    /\ uniq_cols[5] = F_SceneNum
    /\ rows[2][<<"T","a","k","e">>] = <<>>
    /\ rows[2][F_SceneNum] = 1

\* the speakers of the Dialogue beats of scene k: the cue lines of the scene
\* that a spoken line follows
SpeakersOf(k) ==
    {SpeakerAt(i) : i \in {j \in 1..Len(lines) : SceneOf(j) = k /\ Spoken(j)}}

\* b is a Dialogue beat of scene k that c speaks
SpokenBy(k, b, c) ==
    /\ scenes[k].beats[b][1] = K_Dialogue
    /\ Len(scenes[k].beats[b][2]) >= Len(c) + 2
    /\ SubSeq(scenes[k].beats[b][2], 1, Len(c) + 2) = c \o <<":"," ">>

\* C17 as claimed: the characters of a scene are exactly its speakers: the
\* speaker of every Dialogue beat is a member, and every member speaks in at
\* least one Dialogue beat of the scene
CharactersAreSpeakers ==
    Parsed =>
        \A k \in 1..Len(scenes) :
            /\ SpeakersOf(k) \subseteq scenes[k].characters
            /\ \A c \in scenes[k].characters :
                  \E b \in 1..Len(scenes[k].beats) : SpokenBy(k, b, c)

\* C17 as amended: the characters of a scene are exactly the trimmed cue
\* lines of the scene, whether a Dialogue beat follows the cue or not: the
\* speaker of every Dialogue beat is a member, and every member is the
\* trimmed text of a cue line of that scene
CharactersAreCues ==
    Parsed =>
        \A k \in 1..Len(scenes) :
            /\ SpeakersOf(k) \subseteq scenes[k].characters
            /\ \A b \in 1..Len(scenes[k].beats) :
                  scenes[k].beats[b][1] = K_Dialogue =>
                     \E c \in scenes[k].characters : SpokenBy(k, b, c)
            /\ scenes[k].characters =
                  {Strip(lines[i]) :
                     i \in {j \in 1..Len(lines) :
                              SceneOf(j) = k /\ MakesSpeaker(j)}}

CharactersAreCuesWitness ==
    /\ Parsed
    /\ Len(lines) = 4
    /\ is_scene_heading(lines[1])
    /\ Strip(lines[2]) = L_Cue
    /\ Strip(lines[3]) = <<"g","o">>
    /\ Strip(lines[4]) = L_CueAl
    /\ Len(scenes) = 1
    /\ scenes[1].characters = {L_Cue, L_CueAl}
    /\ scenes[1].beats = << <<K_Dialogue, <<"J","O",":"," ","g","o">>>> >>

----------------------------------------------------------------------------
(* A batch of uploaded files: the loop of lines 196-201 *)

\* the most files of a batch
MaxDocs == 2

\* the uploaded documents: one with text before the first heading, a cue, a
\* speech, a blank line, action and a transition; a short one; an empty one
BatchTexts == {<<" ","g","o"," ","\n","I","N","T","."," ","A"," ","-"," ","B","\n","J","O","\n"," ","g","o"," ","\n","\n"," ","g","o"," ","\n","C","U","T"," ","T","O",":">>,
               <<"I","N","T","."," ","A"," ","-"," ","B","\n"," ","g","o"," ">>,
               <<>>}

Batches == UNION {[1..n -> BatchTexts] : n \in 1..MaxDocs}

\* the state at line 195: the files uploaded, reference_columns taken from
\* the reference frame by find_reference_columns_from_df
InitBatch ==
    /\ up_files \in Batches
    /\ \E df0 \in ReferenceFrames : columns = find_reference_columns_from_df(df0)
    /\ doc = 1
    /\ text = up_files[1]
    /\ lines = <<>>
    /\ idx = 1
    /\ pc = "start"
    /\ scenes = <<>>
    /\ current_scene = None
    /\ buffer_action = <<>>
    /\ current_character = <<>>
    /\ col_map = <<>>
    /\ uniq_cols = <<>>
    /\ rows = <<>>
    /\ buffer_src = <<>>
    /\ beat_src = <<>>
    /\ scene_src = <<>>
    /\ probe = <<>>
    /\ verdict = "none"

\* line 201: the builder is handed reference_columns, the list of the batch
BuildDoc ==
    /\ pc = "parsed"
    /\ BuildWith(columns)
    /\ pc' = "built"
    /\ UNCHANGED <<parser_vars, other_vars>>

\* lines 196-199: the loop goes on to the next uploaded file
NextDocument ==
    /\ pc = "built"
    /\ doc < Len(up_files)
    /\ doc' = doc + 1
    /\ text' = up_files[doc + 1]
    /\ pc' = "start"
    /\ UNCHANGED <<lines, idx, scenes, current_scene, buffer_action,
                   current_character, buffer_src, beat_src, scene_src,
                   builder_vars, probe, verdict, up_files>>

NextBatch ==
    \/ Start
    \/ Heading
    \/ PreScene
    \/ Blank
    \/ Cue
    \/ Dialogue
    \/ Transition
    \/ ActionLine
    \/ Finish
    \/ BuildDoc
    \/ NextDocument

SpecBatch == InitBatch /\ [][NextBatch]_vars

\* the step that builds the shotlist of the current document
BuildStep == pc = "parsed" /\ pc' = "built"

\* C18: the builder leaves the caller's schema list and the scenes as they
\* were, so every document of a batch is resolved against the same schema:
\* its output columns are those of the schema the batch began with, and a
\* document that follows one with the same text gets the same result
SchemaSharedUnchanged ==
    [][/\ columns' = columns
       /\ BuildStep =>
             /\ scenes' = scenes
             /\ uniq_cols' = FirstSeen(columns) \o Unmatched(columns)
             /\ (doc > 1 /\ up_files[doc] = up_files[doc - 1]) =>
                   /\ col_map' = col_map
                   /\ uniq_cols' = uniq_cols
                   /\ rows' = rows]_vars

SchemaSharedUnchangedWitness ==
    /\ Built
    /\ doc = 2
    /\ up_files[1] = up_files[2]
    /\ columns[1] = <<"S","H","O","T"," ","N","U","M","B","E","R">>
    /\ Len(uniq_cols) > Len(columns)
    /\ Len(rows) = 2

\* the lines behind the beats of scene k
BeatLines(k) ==
    UNION {Range(EverySrc[k][b]) : b \in 1..Len(EverySrc[k])}

\* the lines the loop has passed
Passed == IF pc = "loop" THEN 1..(idx - 1) ELSE 1..Len(lines)

\* the lines of scene k after its heading that the loop has passed
ScenePassed(k) == {i \in Passed : SceneOf(i) = k /\ ~LineClass[lines[i]].heading}

\* C19: a line before the first heading is in no beat and no characters
\* set; a line between the headings of scenes k and k+1 is in the beats and
\* the characters of scene k only: action text pending at a heading becomes
\* a beat of the scene being closed, and nobody speaks in a scene before a
\* cue of that scene
SceneIsolation ==
    pc \in {"loop", "parsed", "built"} =>
        /\ Len(EveryScene) = HeadingsBefore(SetMax(Passed \cup {0}))
        /\ \A k \in 1..Len(EveryScene) :
              /\ BeatLines(k) \subseteq ScenePassed(k)
              /\ EveryScene[k].characters =
                    {Strip(lines[i]) :
                       i \in {j \in ScenePassed(k) : MakesSpeaker(j)}}
              /\ \A b \in 1..Len(EveryScene[k].beats) :
                    EveryScene[k].beats[b][1] = K_Dialogue =>
                       \E i \in ScenePassed(k) : \E j \in ScenePassed(k) :
                          /\ j < i
                          /\ MakesSpeaker(j)
                          /\ EverySrc[k][b] = <<i>>
                          /\ EveryScene[k].beats[b][2] =
                                Strip(lines[j]) \o <<":"," ">> \o Strip(lines[i])
              /\ (k <= Len(scenes)) =>
                    \A i \in ScenePassed(k) :
                       (~Breaks(i) /\ ~Spoken(i) /\ ~LineClass[lines[i]].transition)
                          => i \in BeatLines(k)
        /\ \A i \in Passed :
              SceneOf(i) = 0 =>
                 \A k \in 1..Len(EveryScene) : i \notin BeatLines(k)
        /\ (pc = "loop" /\ current_scene # None) =>
              Range(buffer_src) \subseteq ScenePassed(Len(EveryScene))
        /\ current_scene = None => buffer_src = <<>>

SceneIsolationWitness ==
    /\ Parsed
    /\ Len(lines) = 4
    /\ is_character_cue(lines[1])
    /\ is_scene_heading(lines[2])
    /\ Strip(lines[3]) = <<"g","o">>
    /\ is_scene_heading(lines[4])
    /\ Len(scenes) = 2
    /\ scenes[1].beats = << <<K_Action, <<"g","o">>>> >>
    /\ scenes[1].characters = {}
    /\ scenes[2].beats = <<>>

\* the beats of the scene a step has flushed into: the scene it closed, or
\* the open scene
FlushedBeats ==
    IF Len(scenes') > Len(scenes) THEN scenes'[Len(scenes')].beats
    ELSE BeatsOf(current_scene')

\* C20: after any prefix of the lines, while a speaker is active the action
\* buffer is empty, and the buffer holds no blank line; so a step that
\* empties a non-empty buffer appends exactly one Action beat, the joined
\* text of the buffered lines, to the scene that was open
SpeakerOrBuffer ==
    /\ [](/\ current_character # <<>> => buffer_action = <<>>
          /\ \A i \in 1..Len(buffer_action) : Strip(buffer_action[i]) # <<>>
          /\ buffer_action # <<>> => current_scene # None)
    /\ [][(buffer_action # <<>> /\ buffer_action' = <<>>) =>
             /\ pc' # "raised"
             /\ Len(FlushedBeats) = Len(current_scene.beats) + 1
             /\ SubSeq(FlushedBeats, 1, Len(current_scene.beats)) =
                   current_scene.beats
             /\ FlushedBeats[Len(FlushedBeats)][1] = K_Action
             /\ FlushedBeats[Len(FlushedBeats)][2] =
                   Join([i \in 1..Len(buffer_action) |-> Strip(buffer_action[i])],
                        <<" ">>)]_vars

SpeakerOrBufferWitness ==
    /\ pc = "loop"
    /\ idx = 5
    /\ is_scene_heading(lines[1])
    /\ Strip(lines[2]) = <<"g","o">>
    /\ Strip(lines[3]) = <<"g","o">>
    /\ is_character_cue(lines[4])
    /\ current_character = L_Cue
    /\ buffer_action = <<>>
    /\ current_scene.beats = << <<K_Action, <<"g","o"," ","g","o">>>> >>

====
